---- MODULE Spec2Model ----
(***************************************************************************)
(* The request dispatch and session-routing pipeline of the rwf HTTP       *)
(* server: Server::route / Server::run (src/lib.rs), RequestHandler::      *)
(* resolve (src/connection.rs), Request::parse (src/connection/request.rs),*)
(* Routes (src/routing.rs), Session / Sessions (src/connection/session.rs) *)
(* and the response formatters (src/connection/response.rs).               *)
(*                                                                         *)
(* A Rust String is modelled as the sequence of its UTF-8 bytes.  An ASCII *)
(* byte is written as the one-character string of that character, any     *)
(* other byte as "x" followed by its two hex digits ("xC3").  Option<T> is *)
(* <<>> for None and <<v>> for Some(v).                                    *)
(***************************************************************************)
EXTENDS Integers, Sequences, FiniteSets, TLC

VARIABLES
    routes,     \* Routes.routes: Vec<Route>, each [path, handler]
    sessions,   \* Sessions.sessions: HashMap<usize, Session>
    counter,    \* Sessions.counter
    state,      \* "built" (before Server::run), "listening", "panicked"
    attempts,   \* the Server::route calls made so far, in call order
    accepted,   \* number of connections taken from listener.incoming()
    client,     \* what the client of the latest connection put on the wire, by parts
    stream,     \* the bytes the latest connection delivers to the server
    written,    \* the bytes the server wrote to the latest connection
    invoked,    \* Option: the Route whose handler ran for the latest connection,
                \* with the session id it was handed
    form_body,  \* Option: the String last passed to from_forms
    form_map,   \* Option: the HashMap from_forms returned for it, None if it panicked
    parsed,     \* Option: the Request that Request::parse made of the stream
    matched,    \* Option: the Route that get_route found for it
    resolved,   \* Option: session_id, the id the request was resolved to
    response,   \* Option: the String the handler returned
    pc,         \* where Server::run is: "idle" at the head of its loop, or the
                \* statement of RequestHandler::resolve it is about to execute
    borrows,    \* the RefMut alive on each RefCell: [routes, sessions]
    backlog,    \* the connections listener.incoming() has yet to yield, oldest first
    conns       \* every connection made so far, in the order of arrival

\* the locals of RequestHandler::resolve
locals == <<parsed, matched, resolved, response>>

\* the accept loop of Server::run and what it is connected to
loop == <<pc, borrows, backlog, conns>>

vars == <<routes, sessions, counter, state, attempts, accepted, client, stream, written, invoked,
          form_body, form_map, locals, loop>>

(***************************************************************************)
(* Bounds of the model.                                                    *)
(***************************************************************************)
MaxRegs == 2        \* Server::route calls before Server::run
MaxDeepRegs == 3    \* Server::route calls in the registration-only specification
MaxConns == 2       \* connections accepted
MaxId == 1          \* session ids 0..MaxId appear in client cookies
MaxPairs == 2       \* pairs in a form body
MaxLength == 3      \* the largest Content-Length value a client declares
MaxBody == 3        \* bytes a client sends after the blank line
MaxArrivals == 2    \* connections made to the listener in the step-by-step specification

None == <<>>
Some(v) == <<v>>

(***************************************************************************)
(* std::str operations the code uses, on byte sequences.  An operator      *)
(* whose name ends in On is the body of the operator of the same name over *)
(* operands that are already values: the one-element sets bind each        *)
(* operand once, so that no operand is computed again where it is used.    *)
(***************************************************************************)
MatchesAt(s, p, i) ==
    /\ i + Len(p) - 1 <= Len(s)
    /\ \A j \in 1..Len(p) : s[i + j - 1] = p[j]

FindOn(s, p, from) ==
    LET hits == {i \in from..(Len(s) - Len(p) + 1) : MatchesAt(s, p, i)}
    IN  IF hits = {} THEN 0 ELSE CHOOSE i \in hits : \A j \in hits : i <= j

\* index of the first occurrence of p in s at or after from, 0 if none
Find(s0, p0, from0) ==
    CHOOSE r \in {FindOn(s, p, from) : s \in {s0}, p \in {p0}, from \in {from0}} : TRUE

StartsWith(s0, p0) == \E s \in {s0}, p \in {p0} : MatchesAt(s, p, 1)

Contains(s, p) == Find(s, p, 1) # 0

RECURSIVE Split(_, _)
SplitOn(s, sep, i) ==
    IF i = 0 THEN <<s>>
    ELSE <<SubSeq(s, 1, i - 1)>> \o Split(SubSeq(s, i + Len(sep), Len(s)), sep)

Split(s0, sep0) ==
    CHOOSE r \in UNION {{SplitOn(s, sep, i) : i \in {Find(s, sep, 1)}} :
                            s \in {s0}, sep \in {sep0}} : TRUE

\* Iterator::nth, 0-based
Nth(seq0, n) == CHOOSE r \in {IF n + 1 <= Len(seq) THEN Some(seq[n + 1]) ELSE None :
                                seq \in {seq0}} : TRUE

RECURSIVE Join(_, _)
JoinOn(seq, sep) ==
    IF seq = <<>> THEN <<>>
    ELSE IF Len(seq) = 1 THEN seq[1]
    ELSE seq[1] \o sep \o Join(Tail(seq), sep)

Join(seq0, sep0) == CHOOSE r \in {JoinOn(seq, sep) : seq \in {seq0}, sep \in {sep0}} : TRUE

Whitespace == {" ", "\t", "\n", "\r", "\f"}

TrimEndOn(s) ==
    LET keep == {i \in 1..Len(s) : s[i] \notin Whitespace}
    IN  IF keep = {} THEN <<>>
        ELSE SubSeq(s, 1, CHOOSE i \in keep : \A j \in keep : j <= i)

TrimEnd(s0) == CHOOSE r \in {TrimEndOn(s) : s \in {s0}} : TRUE

\* str::lines: split on "\n", no final empty line, one trailing "\r" removed per line
StripCr(l) == IF l # <<>> /\ l[Len(l)] = "\r" THEN SubSeq(l, 1, Len(l) - 1) ELSE l

LinesOn(parts) ==
    LET n == IF parts[Len(parts)] = <<>> THEN Len(parts) - 1 ELSE Len(parts)
    IN  [i \in 1..n |-> StripCr(parts[i])]

Lines(s) == CHOOSE r \in {LinesOn(parts) : parts \in {Split(s, <<"\n">>)}} : TRUE

Digits == <<"0", "1", "2", "3", "4", "5", "6", "7", "8", "9">>

IsDigit(c) == \E i \in 1..10 : Digits[i] = c

DigitVal(c) == (CHOOSE i \in 1..10 : Digits[i] = c) - 1

RECURSIVE DecimalValue(_)
DecimalValueOn(d) ==
    IF d = <<>> THEN 0
    ELSE 10 * DecimalValue(SubSeq(d, 1, Len(d) - 1)) + DigitVal(d[Len(d)])

DecimalValue(d0) == CHOOSE r \in {DecimalValueOn(d) : d \in {d0}} : TRUE

\* str::parse::<usize>: an optional "+", then one or more decimal digits
ParseUsizeOn(s) ==
    LET d == IF s # <<>> /\ s[1] = "+" THEN Tail(s) ELSE s
    IN  IF d = <<>> \/ \E i \in 1..Len(d) : ~IsDigit(d[i]) THEN None
        ELSE Some(DecimalValue(d))

ParseUsize(s0) == CHOOSE r \in {ParseUsizeOn(s) : s \in {s0}} : TRUE

\* Display for usize, as used by format!
RECURSIVE FormatUsize(_)
FormatUsizeOn(n) ==
    IF n < 10 THEN <<Digits[n + 1]>>
    ELSE FormatUsize(n \div 10) \o <<Digits[(n % 10) + 1]>>

FormatUsize(n0) == CHOOSE r \in {FormatUsizeOn(n) : n \in {n0}} : TRUE

(***************************************************************************)
(* Wire Parser: src/connection/request.rs and src/connection/method.rs.    *)
(***************************************************************************)
ContentLengthPrefix == <<"C", "o", "n", "t", "e", "n", "t", "-", "L", "e", "n", "g", "t", "h", ":", " ">>

SessionIdWord == <<"s", "e", "s", "s", "i", "o", "n", "_", "i", "d">>

\* The id get_session substitutes for a value that does not parse.  The code's
\* literal is 100000000000, a usize; TLC integers are 32 bits wide, so the
\* model takes the largest of them: like the code's, a value that no counter
\* within the bounds reaches and that no client cookie of the model spells.
SENTINEL == 2147483647

Utf8Lead2 == {"xC3"}
Utf8Cont == {"xA1", "xA9"}
ReplacementChar == <<"xEF", "xBF", "xBD">>

\* String::from_utf8_lossy over the bytes of the model: ASCII and well-formed
\* two-byte sequences are kept, any other byte becomes U+FFFD
RECURSIVE FromUtf8Lossy(_)
FromUtf8LossyOn(b) ==
    IF b = <<>> THEN <<>>
    ELSE IF b[1] \in Utf8Lead2 /\ Len(b) >= 2 /\ b[2] \in Utf8Cont
         THEN <<b[1], b[2]>> \o FromUtf8Lossy(SubSeq(b, 3, Len(b)))
    ELSE IF b[1] \in Utf8Lead2 \cup Utf8Cont
         THEN ReplacementChar \o FromUtf8Lossy(Tail(b))
    ELSE <<b[1]>> \o FromUtf8Lossy(Tail(b))

FromUtf8Lossy(b0) == CHOOSE r \in {FromUtf8LossyOn(b) : b \in {b0}} : TRUE

\* the Content-Length branch of the loop of get_data
ContentLengthOf(line, current) ==
    IF StartsWith(line, ContentLengthPrefix)
    THEN LET v == Nth(Split(line, <<":", " ">>), 1)
             n == ParseUsize(IF v = None THEN <<"0">> ELSE v[1])
         IN  IF n = None THEN 0 ELSE n[1]
    ELSE current

\* the loop of get_data: read_line, trim_end, stop at the empty line
RECURSIVE ReadHeader(_, _, _, _)
ReadHeaderOn(s, header, content_length, stop, line) ==
    IF line = <<>>
    THEN [header |-> header, content_length |-> content_length, pos |-> stop + 1]
    ELSE ReadHeader(s, stop + 1, Append(header, line),
                    ContentLengthOf(line, content_length))

ReadLineEnd(s, pos) == CHOOSE r \in {IF nl = 0 THEN Len(s) ELSE nl :
                                        nl \in {Find(s, <<"\n">>, pos)}} : TRUE

ReadHeader(s0, pos0, header0, content_length0) ==
    CHOOSE r \in UNION UNION {{{ReadHeaderOn(s, header, content_length, stop, line) :
                                   line \in {TrimEnd(SubSeq(s, pos, stop))}} :
                                stop \in {ReadLineEnd(s, pos)}} :
                             s \in {s0}, pos \in {pos0}, header \in {header0},
                             content_length \in {content_length0}} : TRUE

\* ok = FALSE: read_exact panicked on a short stream
GetDataOn(s, h, header_str) ==
    LET n == h.content_length
    IN  IF n = 0 THEN [ok |-> TRUE, header |-> header_str, body |-> None]
        ELSE IF Len(s) - h.pos + 1 < n
             THEN [ok |-> FALSE, header |-> header_str, body |-> None]
        ELSE [ok |-> TRUE, header |-> header_str,
              body |-> Some(FromUtf8Lossy(SubSeq(s, h.pos, h.pos + n - 1)))]

GetData(s0) ==
    CHOOSE r \in UNION UNION {{{GetDataOn(s, h, header_str) :
                                   header_str \in {Join(h.header, <<"\n">>)}} :
                                h \in {ReadHeader(s, 1, <<>>, 0)}} :
                             s \in {s0}} : TRUE

\* a method parser that takes any other token for GET
MethodFromString_Lenient(string) ==
    IF string = <<"P", "O", "S", "T">> THEN Some("POST") ELSE Some("GET")

\* None: the panic of the catch-all arm
MethodFromString(string) ==
    IF string = <<"G", "E", "T">> THEN Some("GET")
    ELSE IF string = <<"P", "O", "S", "T">> THEN Some("POST")
    ELSE None

HttpMethod(header_str) == MethodFromString(Split(header_str, <<" ">>)[1])

\* a path parser that sends every POST to "/"
HttpPath_ByMethod(header_str) ==
    IF StartsWith(header_str, <<"P", "O", "S", "T", " ">>) THEN Some(<<"/">>)
    ELSE Nth(Split(header_str, <<" ">>), 1)

\* a path parser that takes a missing second token for "/a"
HttpPath_Default(header_str) ==
    IF Nth(Split(header_str, <<" ">>), 1) = None THEN Some(<<"/", "a">>)
    ELSE Nth(Split(header_str, <<" ">>), 1)

\* None: the unwrap of a missing second token panics
HttpPath(header_str) == Nth(Split(header_str, <<" ">>), 1)

GetSessionOn(ls) ==
    LET hits == {i \in 1..Len(ls) : Contains(ls[i], SessionIdWord)}
    IN  IF hits = {} THEN None
        ELSE LET line == ls[CHOOSE i \in hits : \A j \in hits : i <= j]
                 id   == Nth(Split(line, <<"=">>), 1)
             IN  IF id = None THEN None
                 ELSE IF ParseUsize(id[1]) = None THEN Some(SENTINEL)
                 ELSE ParseUsize(id[1])

\* a parser in which the last line with the word decides
GetSession_Last(header_str) ==
    CHOOSE r \in UNION {{IF hits = {} THEN None
                         ELSE GetSessionOn(<<ls[CHOOSE i \in hits : \A j \in hits : j <= i]>>) :
                           hits \in {{i \in 1..Len(ls) : Contains(ls[i], SessionIdWord)}}} :
                        ls \in {Lines(header_str)}} : TRUE

\* a parser that takes a value that does not parse for id 0
GetSession_Zero(header_str) ==
    CHOOSE r \in {IF got = Some(SENTINEL) THEN Some(0) ELSE got :
                    got \in {GetSessionOn(Lines(header_str))}} : TRUE

GetSession(header_str) == CHOOSE r \in {GetSessionOn(ls) : ls \in {Lines(header_str)}} : TRUE

\* ok = FALSE: one of the panics of get_data, http_method, http_path
ParseOn(d, method, path) ==
    IF d.ok /\ method # None /\ path # None
    THEN [ok |-> TRUE, resource |-> path[1], method |-> method[1],
          header |-> d.header, body |-> d.body, session |-> GetSession(d.header)]
    ELSE [ok |-> FALSE, resource |-> <<>>, method |-> "", header |-> d.header,
          body |-> None, session |-> None]

Parse(s) ==
    CHOOSE r \in UNION {{ParseOn(d, method, path) :
                            method \in {HttpMethod(d.header)}, path \in {HttpPath(d.header)}} :
                        d \in {GetData(s)}} : TRUE

\* from_forms.  None: parts[1] is out of bounds for a pair without "="
FromFormsOn(parts) ==
    IF \E i \in 1..Len(parts) : Len(parts[i]) < 2 THEN None
    ELSE Some([k \in {parts[i][1] : i \in 1..Len(parts)} |->
                 parts[CHOOSE i \in 1..Len(parts) :
                         /\ parts[i][1] = k
                         /\ \A j \in 1..Len(parts) : parts[j][1] = k => j <= i][2]])

FromForms(body) ==
    CHOOSE r \in UNION {{FromFormsOn([i \in 1..Len(pairs) |-> Split(pairs[i], <<"=">>)])} :
                           pairs \in {Split(body, <<"&">>)}} : TRUE

(***************************************************************************)
(* Session Store: src/connection/session.rs.  A Session's data maps a key  *)
(* to a boxed value: its TypeId and its bits.                              *)
(***************************************************************************)
SessionNew == <<>>

\* an insert that keeps the value already under the key
SessionAdd_KeepFirst(data, key, T, value) ==
    IF key \in DOMAIN data THEN data ELSE (key :> [type |-> T, value |-> value]) @@ data

SessionAdd(data, key, T, value) == (key :> [type |-> T, value |-> value]) @@ data

\* a lookup that casts without comparing the TypeId
SessionGet_Unchecked(data, key, T) ==
    IF key \notin DOMAIN data THEN None ELSE Some(data[key].value)

SessionGet(data, key, T) ==
    IF key \notin DOMAIN data THEN None
    ELSE IF data[key].type = T THEN Some(data[key].value)
    ELSE None

\* a store that claims to contain every id
SessionsContains_Any(ss, id) == TRUE

SessionsContains(ss, id) == id \in DOMAIN ss

\* a store whose add skips an id
SessionsAdd_Skip(ss, c) ==
    [sessions |-> (c :> SessionNew) @@ ss, counter |-> c + 2, id |-> c]

\* a store whose add forgets to advance the counter
SessionsAdd_Stale(ss, c) ==
    [sessions |-> (c :> SessionNew) @@ ss, counter |-> c, id |-> c]

\* a store whose add empties the sessions it holds
SessionsAdd_Wipe(ss, c) ==
    [sessions |-> [id \in DOMAIN ss \cup {c} |-> SessionNew], counter |-> c + 1, id |-> c]

\* a store whose add inserts under id 0 whatever the counter
SessionsAdd_AtZero(ss, c) ==
    [sessions |-> (0 :> SessionNew) @@ ss, counter |-> c + 1, id |-> 0]

\* a store whose add starts over with the new session alone
SessionsAdd_Evict(ss, c) ==
    [sessions |-> (c :> SessionNew), counter |-> c + 1, id |-> c]

SessionsAdd(ss, c) ==
    [sessions |-> (c :> SessionNew) @@ ss, counter |-> c + 1, id |-> c]

\* None: the unwrap of a missing id panics
SessionsGet(ss, key) == IF key \in DOMAIN ss THEN Some(ss[key]) ELSE None

(***************************************************************************)
(* Route Table: src/routing.rs.                                            *)
(***************************************************************************)
\* a lookup that accepts a route whose path begins the requested path
GetRoute_Prefix(rs, path) ==
    LET hits == {i \in 1..Len(rs) : StartsWith(path, rs[i].path)}
    IN  IF hits = {} THEN None
        ELSE Some(rs[CHOOSE i \in hits : \A j \in hits : i <= j])

\* a lookup that falls back on the first route
GetRoute_Fallback(rs, path) ==
    LET hits == {i \in 1..Len(rs) : rs[i].path = path}
    IN  IF hits # {} THEN Some(rs[CHOOSE i \in hits : \A j \in hits : i <= j])
        ELSE IF rs # <<>> THEN Some(rs[1])
        ELSE None

GetRoute(rs, path) ==
    LET hits == {i \in 1..Len(rs) : rs[i].path = path}
    IN  IF hits = {} THEN None
        ELSE Some(rs[CHOOSE i \in hits : \A j \in hits : i <= j])

\* a registration where the last write wins
RoutesAdd_Overwrite(rs, path, f) ==
    IF \E i \in 1..Len(rs) : rs[i].path = path
    THEN [i \in 1..Len(rs) |->
            IF rs[i].path = path THEN [path |-> path, handler |-> f] ELSE rs[i]]
    ELSE Append(rs, [path |-> path, handler |-> f])

\* a registration that does not look the path up first
RoutesAdd_Always(rs, path, f) == Append(rs, [path |-> path, handler |-> f])

RoutesAdd(rs, path, f) ==
    IF GetRoute(rs, path) # None THEN rs
    ELSE Append(rs, [path |-> path, handler |-> f])

(***************************************************************************)
(* Response Formatter: src/connection/response.rs.                         *)
(***************************************************************************)
\* a formatter that names session 0 whatever id it is given
FormatContent_Zero(length, content, session_id) ==
    <<"H", "T", "T", "P", "/", "1", ".", "1", " ", "2", "0", "0", " ", "O", "K", "\r", "\n",
      "S", "e", "t", "-", "C", "o", "o", "k", "i", "e", ":", " ",
      "s", "e", "s", "s", "i", "o", "n", "_", "i", "d", "=", "0",
      ";", " ", "H", "t", "t", "p", "O", "n", "l", "y", "\r", "\n",
      "C", "o", "n", "t", "e", "n", "t", "-", "L", "e", "n", "g", "h", "t", ":", " ">>
    \o FormatUsize(length)
    \o <<"\r", "\n", "\r", "\n">>
    \o content

FormatContent(length, content, session_id) ==
    <<"H", "T", "T", "P", "/", "1", ".", "1", " ", "2", "0", "0", " ", "O", "K", "\r", "\n",
      "S", "e", "t", "-", "C", "o", "o", "k", "i", "e", ":", " ",
      "s", "e", "s", "s", "i", "o", "n", "_", "i", "d", "=">>
    \o FormatUsize(session_id)
    \o <<";", " ", "H", "t", "t", "p", "O", "n", "l", "y", "\r", "\n",
         "C", "o", "n", "t", "e", "n", "t", "-", "L", "e", "n", "g", "h", "t", ":", " ">>
    \o FormatUsize(length)
    \o <<"\r", "\n", "\r", "\n">>
    \o content

Error404 ==
    <<"H", "T", "T", "P", "/", "1", ".", "1", " ", "4", "0", "4", " ",
      "N", "O", "T", " ", "F", "O", "U", "N", "D", "\r", "\n",
      "C", "o", "n", "t", "e", "n", "t", "-", "L", "e", "n", "g", "t", "h", ":", " ",
      "2", "1", "\r", "\n", "\r", "\n",
      "R", "e", "s", "o", "u", "r", "c", "e", " ", "n", "o", "t", " ",
      "f", "o", "u", "n", "d">>

\* redirect
Redirect(route) ==
    <<"H", "T", "T", "P", "/", "1", ".", "1", " ", "3", "0", "2", " ", "F", "o", "u", "n", "d",
      "\r", "\n", "L", "o", "c", "a", "t", "i", "o", "n", ":", " ">>
    \o route
    \o <<"\r", "\n", "\r", "\n">>

(***************************************************************************)
(* Handlers: fn(Request, &mut Session) -> String, supplied by the program  *)
(* that embeds the server.  Four of them, in the manner of the examples   *)
(* in src/lib.rs and src/connection/session.rs: each yields the session    *)
(* data it leaves behind and the String it returns.                        *)
(***************************************************************************)
Handlers == {"hello", "store", "whoami", "moved"}

\* where the handler "moved" redirects to
MovedTo == <<"/", "a">>

Age == <<"3", "0">>

HandlerRun(h, request, session) ==
    IF h = "hello"
    THEN [session |-> session,
          body |-> <<"H", "e", "l", "l", "o", ",", " ", "W", "o", "r", "l", "d", "!">>]
    ELSE IF h = "store"
    THEN [session |->
            IF request.method = "GET"
            THEN SessionAdd(session, "age", "i32", Age)
            ELSE SessionAdd(SessionAdd(session, "username", "&str", <<"A", "l">>),
                            "age", "&str", Age),
          body |-> <<"o", "l", "xC3", "xA1">>]
    ELSE IF h = "moved"
    THEN [session |-> session, body |-> Redirect(MovedTo)]
    ELSE LET age == SessionGet(session, "age", "i32")
         IN  [session |-> session,
              body |-> IF age = None THEN <<"n", "o", "n", "e">> ELSE age[1]]

(***************************************************************************)
(* The clients: the requests put on the wire.                              *)
(***************************************************************************)
GET == <<"G", "E", "T">>
POST == <<"P", "O", "S", "T">>
PUT == <<"P", "U", "T">>
LowerGet == <<"g", "e", "t">>
CRLF == <<"\r", "\n">>
Http11 == <<"H", "T", "T", "P", "/", "1", ".", "1">>
HostLine == <<"H", "o", "s", "t", ":", " ", "l", "o", "c", "a", "l", "h", "o", "s", "t">>
PathA == <<"/", "a">>
PathB == <<"/", "b">>
PathC == <<"/", "c">>
PathAQuery == <<"/", "a", "?", "x", "=", "1">>
PathASlash == <<"/", "a", "/">>

Paths == {PathA, PathB}
Resources == {PathA, PathB, PathC, PathAQuery, PathASlash}

CookieLine(form, id) ==
    LET pair == SessionIdWord \o <<"=">> \o FormatUsize(id)
        name == <<"C", "o", "o", "k", "i", "e", ":", " ">>
        theme == <<"t", "h", "e", "m", "e", "=", "d", "a", "r", "k">>
    IN  IF form = "alone" THEN name \o pair
        ELSE IF form = "first" THEN name \o pair \o <<";", " ">> \o theme
        ELSE IF form = "last" THEN name \o theme \o <<";", " ">> \o pair
        ELSE name \o SessionIdWord \o <<"=", "a", "b", "c">>

StartLine(c) ==
    c.method
    \o (IF c.resource = None THEN <<>> ELSE <<" ">> \o c.resource[1])
    \o (IF c.version THEN <<" ">> \o Http11 ELSE <<>>)

Wire(c) ==
    StartLine(c) \o CRLF
    \o (IF c.host THEN HostLine \o CRLF ELSE <<>>)
    \o (IF c.cookie = "none" THEN <<>> ELSE CookieLine(c.cookie, c.id) \o CRLF)
    \o (IF c.length = None THEN <<>> ELSE c.length[1] \o CRLF)
    \o CRLF
    \o c.body

\* a request with no length line and no byte after the blank line
Client(m, r, v, h, ck, id) ==
    [method |-> m, resource |-> r, version |-> v, host |-> h, cookie |-> ck, id |-> id,
     length |-> None, body |-> <<>>]

\* the request c with the header line `line` and the bytes b after the blank line
WithBody(c, line, b) == [c EXCEPT !.length = line, !.body = b]

RequestInputs ==
    {Client(m, Some(r), TRUE, TRUE, "none", 0) : m \in {GET, POST}, r \in Resources}
    \cup {Client(m, Some(r), TRUE, TRUE, "alone", id) :
            m \in {GET, POST}, r \in Paths, id \in 0..MaxId}
    \cup {Client(GET, Some(r), TRUE, TRUE, ck, id) :
            r \in {PathA}, ck \in {"first", "last"}, id \in 0..MaxId}
    \cup {Client(GET, Some(PathC), TRUE, TRUE, "alone", id) : id \in 0..MaxId}
    \cup {Client(GET, Some(PathA), TRUE, TRUE, "malformed", 0),
          Client(PUT, Some(PathA), TRUE, TRUE, "none", 0),
          Client(GET, None, FALSE, TRUE, "none", 0),
          Client(GET, Some(PathA), FALSE, FALSE, "none", 0),
          Client(GET, Some(PathA), FALSE, TRUE, "none", 0),
          Client(LowerGet, Some(PathA), TRUE, TRUE, "none", 0),
          Client(<<>>, Some(PathA), TRUE, TRUE, "none", 0),
          Client(<<>>, None, FALSE, TRUE, "none", 0),
          Client(GET, None, FALSE, FALSE, "none", 0)}

NoClient == Client(<<>>, None, FALSE, FALSE, "none", 0)

\* the bytes of each request, and Request::parse of them
WireOf == [c \in RequestInputs |-> Wire(c)]

RequestOf == [c \in RequestInputs |-> Parse(WireOf[c])]

(***************************************************************************)
(* The program.                                                            *)
(***************************************************************************)
\* Server::build
Init ==
    /\ routes = <<>>
    /\ sessions = <<>>
    /\ counter = 0
    /\ state = "built"
    /\ attempts = <<>>
    /\ accepted = 0
    /\ client = NoClient
    /\ stream = <<>>
    /\ written = <<>>
    /\ invoked = None
    /\ form_body = None
    /\ form_map = None
    /\ parsed = None
    /\ matched = None
    /\ resolved = None
    /\ response = None
    /\ pc = "idle"
    /\ borrows = [routes |-> 0, sessions |-> 0]
    /\ backlog = <<>>
    /\ conns = <<>>

\* Server::route(p, h)
RouteCall(p, h) ==
    /\ state = "built"
    /\ attempts' = Append(attempts, [path |-> p, handler |-> h])
    /\ routes' = RoutesAdd(routes, p, h)
    /\ UNCHANGED <<sessions, counter, state, accepted, client, stream, written, invoked,
                   form_body, form_map, locals, loop>>

\* the routes of the program that serves: a page that stores into the session
\* or a static greeting at /a, a page that reads the session or a redirect at /b
Registrations ==
    {[path |-> PathA, handler |-> "store"],
     [path |-> PathA, handler |-> "hello"],
     [path |-> PathB, handler |-> "whoami"],
     [path |-> PathB, handler |-> "moved"]}

Route ==
    \E r \in Registrations :
        /\ Len(attempts) < MaxRegs
        /\ RouteCall(r.path, r.handler)

\* any handler at any path, for the specification of the configuration phase
RouteDeep ==
    \E p \in Paths, h \in Handlers :
        /\ Len(attempts) < MaxDeepRegs
        /\ RouteCall(p, h)

\* Server::run enters its accept loop and never returns
Run ==
    /\ state = "built"
    /\ state' = "listening"
    /\ UNCHANGED <<routes, sessions, counter, attempts, accepted, client, stream, written, invoked,
                   form_body, form_map, locals, loop>>

\* one iteration of the accept loop: RequestHandler::resolve on the next connection
Resolve ==
    \E c \in RequestInputs :
        /\ state = "listening"
        /\ accepted < MaxConns
        /\ accepted' = accepted + 1
        /\ client' = c
        /\ stream' = WireOf[c]
        /\ UNCHANGED <<routes, attempts, form_body, form_map, locals, loop>>
        /\ LET request == RequestOf[c]
               route   == GetRoute(routes, request.resource)
           IN  IF ~request.ok
               THEN \* the panic unwinds out of Server::run
                    /\ state' = "panicked"
                    /\ written' = <<>>
                    /\ invoked' = None
                    /\ UNCHANGED <<sessions, counter>>
               ELSE IF route # None
               THEN LET known      == /\ request.session # None
                                      /\ SessionsContains(sessions, request.session[1])
                        added      == SessionsAdd(sessions, counter)
                        session_id == IF known THEN request.session[1] ELSE added.id
                        store      == IF known THEN sessions ELSE added.sessions
                        session    == SessionsGet(store, session_id)
                        result     == HandlerRun(route[1].handler, request, session[1])
                    IN  /\ counter' = IF known THEN counter ELSE added.counter
                        /\ IF session = None
                           THEN \* the unwrap in Sessions::get panics
                                /\ sessions' = store
                                /\ written' = <<>>
                                /\ invoked' = None
                                /\ state' = "panicked"
                           ELSE /\ sessions' = [store EXCEPT ![session_id] = result.session]
                                /\ written' = FormatContent(Len(result.body), result.body,
                                                            session_id)
                                /\ invoked' = Some([path |-> route[1].path,
                                                    handler |-> route[1].handler,
                                                    session_id |-> session_id])
                                /\ state' = state
               ELSE /\ written' = Error404
                    /\ invoked' = None
                    /\ UNCHANGED <<sessions, counter, state>>

Next == Route \/ Run \/ Resolve

Spec == Init /\ [][Next]_vars

NextRoutes == RouteDeep

SpecRoutes == Init /\ [][NextRoutes]_vars

\* the pairs of the form bodies: well-formed ones, a repeated key, a value
\* with "=" in it, an empty key, an empty value, no "=", nothing at all
FormPairs ==
    {<<"a", "=", "1">>, <<"b", "=", "2">>, <<"a", "=", "2">>, <<"b", "=", "1">>,
     <<"a", "=", "1", "=", "2">>, <<"=", "1">>, <<"a", "=">>, <<"=">>, <<"a">>, <<>>}

FormBodies ==
    {Join(ps, <<"&">>) : ps \in UNION {[1..n -> FormPairs] : n \in 1..MaxPairs}}

\* a handler calls from_forms on a body
FromFormsCall ==
    \E body \in FormBodies :
        /\ form_body' = Some(body)
        /\ form_map' = FromForms(body)
        /\ UNCHANGED <<routes, sessions, counter, state, attempts, accepted, client, stream,
                       written, invoked, locals, loop>>

NextForms == FromFormsCall

SpecForms == Init /\ [][NextForms]_vars

\* the length lines of the requests with a body: the header spelt as the code
\* expects it with the values 0..MaxLength, a value that is no number, a value
\* with ": " in it, the name in lower case, the name with no space after it
LengthName == <<"C", "o", "n", "t", "e", "n", "t", "-", "L", "e", "n", "g", "t", "h", ":">>

LengthLines ==
    {LengthName \o <<" ">> \o FormatUsize(n) : n \in 0..MaxLength}
    \cup {LengthName \o <<" ", "x">>,
          LengthName \o <<" ", "2", ":", " ", "3">>,
          LengthName \o <<"2">>,
          <<"c", "o", "n", "t", "e", "n", "t", "-", "l", "e", "n", "g", "t", "h", ":", " ", "2">>}

\* the bytes after the blank line: ASCII, and the two bytes of U+00E1 in any order
BodyBytes == {"a", "xC3", "xA1"}

Bodies == UNION {[1..n -> BodyBytes] : n \in 0..MaxBody}

FramingInputs ==
    {WithBody(Client(m, Some(PathA), TRUE, TRUE, "none", 0), line, b) :
        m \in {GET, POST}, line \in {None} \cup {Some(l) : l \in LengthLines}, b \in Bodies}

\* resources with the word session_id in them
PathQueryId ==
    <<"/", "a", "?", "s", "e", "s", "s", "i", "o", "n", "_", "i", "d", "=", "1">>
PathNamedId == <<"/", "s", "e", "s", "s", "i", "o", "n", "_", "i", "d">>

\* requests with the word session_id in the start line, in a Cookie line, in both
SessionLineInputs ==
    {Client(GET, Some(r), v, TRUE, ck, id) :
        r \in {PathA, PathQueryId, PathNamedId}, v \in BOOLEAN,
        ck \in {"none", "alone", "last", "malformed"}, id \in 0..MaxId}

ParseInputs == FramingInputs \cup SessionLineInputs

\* Request::parse of the bytes of each of them
ParsedOf == [c \in ParseInputs |-> Parse(Wire(c))]

\* Request::parse on the stream of a connection
ParseCall ==
    \E c \in ParseInputs :
        /\ parsed = None
        /\ client' = c
        /\ stream' = Wire(c)
        /\ parsed' = Some(ParsedOf[c])
        /\ UNCHANGED <<routes, sessions, counter, state, attempts, accepted, written, invoked,
                       form_body, form_map, matched, resolved, response, loop>>

NextParse == ParseCall

SpecParse == Init /\ [][NextParse]_vars

(***************************************************************************)
(* Server::run and RequestHandler::resolve statement by statement, with    *)
(* the clients that connect while a request is being resolved.             *)
(***************************************************************************)
\* the routes of the program that serves, in the order of its Server::route calls
StepRoutes ==
    <<[path |-> PathA, handler |-> "store"], [path |-> PathB, handler |-> "whoami"]>>

\* the state when Server::run is entered
InitSteps ==
    /\ routes = StepRoutes
    /\ attempts = StepRoutes
    /\ state = "listening"
    /\ sessions = <<>>
    /\ counter = 0
    /\ accepted = 0
    /\ client = NoClient
    /\ stream = <<>>
    /\ written = <<>>
    /\ invoked = None
    /\ form_body = None
    /\ form_map = None
    /\ parsed = None
    /\ matched = None
    /\ resolved = None
    /\ response = None
    /\ pc = "idle"
    /\ borrows = [routes |-> 0, sessions |-> 0]
    /\ backlog = <<>>
    /\ conns = <<>>

StepInputs ==
    {Client(GET, Some(PathA), TRUE, TRUE, "none", 0),
     Client(POST, Some(PathA), TRUE, TRUE, "none", 0),
     Client(GET, Some(PathB), TRUE, TRUE, "none", 0),
     Client(GET, Some(PathB), TRUE, TRUE, "alone", 0),
     Client(GET, Some(PathC), TRUE, TRUE, "none", 0),
     Client(PUT, Some(PathA), TRUE, TRUE, "none", 0)}

\* a client connects and sends its request: the connection waits in the
\* listener's queue until Server::run takes it
Connect ==
    \E c \in StepInputs :
        /\ state = "listening"
        /\ Len(conns) < MaxArrivals
        /\ conns' = Append(conns, [input |-> c, status |-> "queued", requests |-> 0,
                                   calls |-> 0, responses |-> 0])
        /\ backlog' = Append(backlog, Len(conns) + 1)
        /\ UNCHANGED <<routes, sessions, counter, state, attempts, accepted, client, stream,
                       written, invoked, form_body, form_map, locals, pc, borrows>>

\* a listener that yields the newest connection first
NextConnection_Newest(queue) == queue[Len(queue)]

\* what listener.incoming() yields next
NextConnection(queue) == Head(queue)

\* the RefMut of a resolve that forgets to drop them
Released_Leak(b) == b

\* the RefMut routes and sessions are dropped when resolve returns or unwinds
Released(b) == [routes |-> b.routes - 1, sessions |-> b.sessions - 1]

\* the connection being resolved
Current == CHOOSE k \in 1..Len(conns) : conns[k].status = "active"

\* a panic in resolve: it unwinds through Server::run, which has no handler for it
Panic ==
    /\ state' = "panicked"
    /\ pc' = "dead"

\* for conn in self.listener.incoming() ... handler.resolve(request)
Accept ==
    /\ state = "listening"
    /\ pc = "idle"
    /\ backlog # <<>>
    /\ \E k \in {NextConnection(backlog)} :
        /\ backlog' = SelectSeq(backlog, LAMBDA j : j # k)
        /\ conns' = [conns EXCEPT ![k].status = "active"]
        /\ client' = conns[k].input
        /\ stream' = WireOf[conns[k].input]
    /\ accepted' = accepted + 1
    /\ written' = <<>>
    /\ invoked' = None
    /\ parsed' = None
    /\ matched' = None
    /\ resolved' = None
    /\ response' = None
    /\ pc' = "parse"
    /\ UNCHANGED <<routes, sessions, counter, state, attempts, form_body, form_map, borrows>>

\* let request = Request::parse(&stream)
ParseStep ==
    /\ pc = "parse"
    /\ parsed' = Some(RequestOf[client])
    /\ IF RequestOf[client].ok
       THEN /\ pc' = "borrow"
            /\ conns' = [conns EXCEPT ![Current].requests = @ + 1]
            /\ state' = state
       ELSE /\ Panic
            /\ conns' = [conns EXCEPT ![Current].status = "aborted"]
    /\ UNCHANGED <<routes, sessions, counter, attempts, accepted, client, stream, written,
                   invoked, form_body, form_map, matched, resolved, response, borrows, backlog>>

\* RefCell::borrow_mut on the routes and on the sessions: BorrowMutError
\* if a RefMut of the cell is alive
BorrowStep ==
    /\ pc = "borrow"
    /\ IF borrows.routes > 0 \/ borrows.sessions > 0
       THEN /\ Panic
            /\ conns' = [conns EXCEPT ![Current].status = "aborted"]
            /\ borrows' = borrows
       ELSE /\ borrows' = [routes |-> borrows.routes + 1, sessions |-> borrows.sessions + 1]
            /\ pc' = "match"
            /\ UNCHANGED <<state, conns>>
    /\ UNCHANGED <<routes, sessions, counter, attempts, accepted, client, stream, written,
                   invoked, form_body, form_map, locals, backlog>>

\* if let Some(route) = routes.get_route(&request.resource)
MatchStep ==
    /\ pc = "match"
    /\ matched' = GetRoute(routes, parsed[1].resource)
    /\ pc' = IF matched' # None THEN "session" ELSE "notfound"
    /\ UNCHANGED <<routes, sessions, counter, state, attempts, accepted, client, stream,
                   written, invoked, form_body, form_map, parsed, resolved, response,
                   borrows, backlog, conns>>

\* let session_id = request.session.filter(..).unwrap_or_else(|| sessions.add())
SessionStep ==
    /\ pc = "session"
    /\ LET known == /\ parsed[1].session # None
                     /\ SessionsContains(sessions, parsed[1].session[1])
           added == SessionsAdd(sessions, counter)
       IN  /\ resolved' = Some(IF known THEN parsed[1].session[1] ELSE added.id)
           /\ sessions' = IF known THEN sessions ELSE added.sessions
           /\ counter' = IF known THEN counter ELSE added.counter
    /\ pc' = "invoke"
    /\ UNCHANGED <<routes, state, attempts, accepted, client, stream, written, invoked,
                   form_body, form_map, parsed, matched, response, borrows, backlog, conns>>

\* let session = sessions.get(session_id); let response = f(request, session)
InvokeStep ==
    /\ pc = "invoke"
    /\ LET session == SessionsGet(sessions, resolved[1])
       IN  IF session = None
           THEN /\ Panic
                /\ conns' = [conns EXCEPT ![Current].status = "aborted"]
                /\ borrows' = Released(borrows)
                /\ UNCHANGED <<sessions, response, invoked>>
           ELSE LET result == HandlerRun(matched[1].handler, parsed[1], session[1])
                IN  /\ sessions' = [sessions EXCEPT ![resolved[1]] = result.session]
                    /\ response' = Some(result.body)
                    /\ invoked' = Some([path |-> matched[1].path,
                                        handler |-> matched[1].handler,
                                        session_id |-> resolved[1]])
                    /\ conns' = [conns EXCEPT ![Current].calls = @ + 1]
                    /\ pc' = "write"
                    /\ UNCHANGED <<state, borrows>>
    /\ UNCHANGED <<routes, counter, attempts, accepted, client, stream, written,
                   form_body, form_map, parsed, matched, resolved, backlog>>

\* a resolve that keeps the stream when it returns
Return_Open ==
    /\ conns' = [conns EXCEPT ![Current].responses = @ + 1]
    /\ borrows' = Released(borrows)
    /\ pc' = "idle"

\* resolve returns: the stream and the RefMut are dropped
Return ==
    /\ conns' = [conns EXCEPT ![Current].responses = @ + 1, ![Current].status = "closed"]
    /\ borrows' = Released(borrows)
    /\ pc' = "idle"

\* a resolve that writes the head of the response before it calls the handler
WriteStep_Early ==
    \/ /\ pc = "invoke"
       /\ written = <<>>
       /\ written' = FormatContent(0, <<>>, resolved[1])
       /\ UNCHANGED <<routes, sessions, counter, state, attempts, accepted, client, stream,
                      invoked, form_body, form_map, locals, loop>>
    \/ /\ pc = "write"
       /\ written' = written \o FormatContent(Len(response[1]), response[1], resolved[1])
       /\ Return
       /\ UNCHANGED <<routes, sessions, counter, state, attempts, accepted, client, stream,
                      invoked, form_body, form_map, locals, backlog>>

\* stream.write_all(&format_content(response.len(), &response, session_id)); return
WriteStep ==
    /\ pc = "write"
    /\ written' = FormatContent(Len(response[1]), response[1], resolved[1])
    /\ Return
    /\ UNCHANGED <<routes, sessions, counter, state, attempts, accepted, client, stream,
                   invoked, form_body, form_map, locals, backlog>>

\* stream.write_all(response::error().as_bytes())
NotFoundStep ==
    /\ pc = "notfound"
    /\ written' = Error404
    /\ Return
    /\ UNCHANGED <<routes, sessions, counter, state, attempts, accepted, client, stream,
                   invoked, form_body, form_map, locals, backlog>>

\* the steps of the one thread of the server
Dispatch ==
    Accept \/ ParseStep \/ BorrowStep \/ MatchStep \/ SessionStep \/ InvokeStep
    \/ WriteStep \/ NotFoundStep

NextSteps == Connect \/ Dispatch

SpecSteps == InitSteps /\ [][NextSteps]_vars

\* the thread runs whenever it has a step to take
SpecStepsLive == SpecSteps /\ WF_vars(Dispatch)

TypeOK ==
    /\ state \in {"built", "listening", "panicked"}
    /\ counter \in 0..MaxConns
    /\ accepted \in 0..MaxConns
    /\ Len(routes) <= Cardinality(Paths)

(***************************************************************************)
(* What a client reads off a response, and what it knows of its request.   *)
(***************************************************************************)
\* the index of the blank line that ends the header block
HeadEnd(w) == Find(w, CRLF \o CRLF, 1)

BodyOf(w) == SubSeq(w, HeadEnd(w) + 4, Len(w))

StatusLineIs(w, status) == StartsWith(w, status \o CRLF)

\* the header block of w has the line `line`
HasHeaderLine(w, line) ==
    \E pat \in {CRLF \o line \o CRLF}, he \in {HeadEnd(w)} :
        \E i \in 1..he : MatchesAt(w, pat, i)

\* the header block of w has a line that starts with `pre`
HasHeaderPrefix(w, pre) ==
    \E pat \in {CRLF \o pre}, he \in {HeadEnd(w)} :
        \E i \in 1..he : MatchesAt(w, pat, i)

Status200 == <<"H", "T", "T", "P", "/", "1", ".", "1", " ", "2", "0", "0", " ", "O", "K">>
Status404 ==
    <<"H", "T", "T", "P", "/", "1", ".", "1", " ", "4", "0", "4", " ",
      "N", "O", "T", " ", "F", "O", "U", "N", "D">>
NotFoundBody ==
    <<"R", "e", "s", "o", "u", "r", "c", "e", " ", "n", "o", "t", " ", "f", "o", "u", "n", "d">>

SetCookieLine(id) ==
    <<"S", "e", "t", "-", "C", "o", "o", "k", "i", "e", ":", " ">>
    \o SessionIdWord \o <<"=">> \o FormatUsize(id)
    \o <<";", " ", "H", "t", "t", "p", "O", "n", "l", "y">>

ContentLengthLine(n) == ContentLengthPrefix \o FormatUsize(n)

\* Option: the id k of the header line "Set-Cookie: session_id=<k>; HttpOnly"
SetCookieId(w) ==
    LET ids == {k \in 0..(MaxConns + 1) : HasHeaderLine(w, SetCookieLine(k))}
    IN  IF ids = {} THEN None ELSE Some(CHOOSE k \in ids : TRUE)

\* an HTTP/1.1-shaped request: METHOD SP PATH SP VERSION with a supported method
WellFormed(c) == c.method \in {GET, POST} /\ c.resource # None /\ c.version

Registered(rs, r) == \E i \in 1..Len(rs) : rs[i].path = r

CarriesId(c) == c.cookie \in {"alone", "first", "last"}

\* this step handled a connection and the server survived it
Handled == accepted' = accepted + 1 /\ state' = "listening"

\* the latest connection has been handled and the server survived it
Served == accepted > 0 /\ state = "listening"

(***************************************************************************)
(* C1.  Session continuity: a request to a registered route whose Cookie   *)
(* line carries session_id=<k>, alone or among other cookies, for a k the  *)
(* store holds, is answered with Set-Cookie session id k, and no session   *)
(* is allocated for it.                                                    *)
(***************************************************************************)
C1_SessionContinuity ==
    [][(/\ Handled
        /\ WellFormed(client')
        /\ Registered(routes, client'.resource[1])
        /\ CarriesId(client')
        /\ client'.id \in DOMAIN sessions)
       => (/\ SetCookieId(written') = Some(client'.id)
           /\ counter' = counter
           /\ DOMAIN sessions' = DOMAIN sessions)]_vars

\* what the code does keep of C1: continuity when session_id=<k> is the only
\* "=" on its line
C1_ContinuityAlone ==
    [][(/\ Handled
        /\ WellFormed(client')
        /\ Registered(routes, client'.resource[1])
        /\ client'.cookie = "alone"
        /\ client'.id \in DOMAIN sessions)
       => (/\ SetCookieId(written') = Some(client'.id)
           /\ counter' = counter
           /\ DOMAIN sessions' = DOMAIN sessions)]_vars

(***************************************************************************)
(* C2.  A request to a registered route that carries no session id, or an  *)
(* id the store does not contain, is answered with a newly allocated id,   *)
(* greater than and distinct from every id issued before; as first stated, *)
(* the id the client supplied is not in the store afterwards.              *)
(***************************************************************************)
C2_Fresh(new) ==
    /\ new # None
    /\ \A i \in DOMAIN sessions : new[1] > i
    /\ new[1] \notin DOMAIN sessions
    /\ new[1] \in DOMAIN sessions'

C2_Case ==
    /\ Handled
    /\ WellFormed(client')
    /\ Registered(routes, client'.resource[1])
    /\ (~CarriesId(client') \/ client'.id \notin DOMAIN sessions)

C2_NewIdNeverAdopted ==
    [][C2_Case
       => \A new \in {SetCookieId(written')} :
            /\ C2_Fresh(new)
            /\ (CarriesId(client') => client'.id \notin DOMAIN sessions')]_vars

(***************************************************************************)
(* C2, amended.  The same request is answered with a newly allocated id,   *)
(* greater than and distinct from every id issued before; that id is the   *)
(* store's next counter value whatever id the client supplied, and it is   *)
(* the only id the store gains (so the supplied id is in the store         *)
(* afterwards only when it equals the id just allocated).                  *)
(***************************************************************************)
C2_NewIdFromCounter ==
    [][C2_Case
       => \A new \in {SetCookieId(written')} :
            /\ C2_Fresh(new)
            /\ new = Some(counter)
            /\ DOMAIN sessions' = DOMAIN sessions \cup {counter}]_vars

C2_Witness ==
    /\ Served
    /\ WellFormed(client)
    /\ client.cookie = "alone"
    /\ client.id = 1
    /\ SetCookieId(written) = Some(0)
    /\ DOMAIN sessions = {0}

(***************************************************************************)
(* C3.  Sessions::add on a fresh store returns 0 and the n-th call returns *)
(* n-1: the ids issued are 0..counter-1 without gaps, the next call        *)
(* returns the number of sessions created so far, an id the store does not *)
(* hold, puts an empty Session under it and leaves the others alone.       *)
(***************************************************************************)
C3_Allocation ==
    /\ DOMAIN sessions = 0..(counter - 1)
    /\ \A r \in {SessionsAdd(sessions, counter)} :
        /\ r.id = Cardinality(DOMAIN sessions)
        /\ r.id \notin DOMAIN sessions
        /\ r.counter = r.id + 1
        /\ DOMAIN r.sessions = DOMAIN sessions \cup {r.id}
        /\ r.sessions[r.id] = SessionNew
        /\ \A i \in DOMAIN sessions : r.sessions[i] = sessions[i]

C3_Witness == counter = 2 /\ DOMAIN sessions = {0, 1} /\ accepted = 2

(***************************************************************************)
(* C4.  Route first-write-wins: after every Server::route call, lookup of  *)
(* each path returns the handler of the first call made for that path,     *)
(* whatever was registered in between; a call for a path that is already   *)
(* registered leaves the table as it was and raises nothing.               *)
(***************************************************************************)
FirstAttempt(att, p) ==
    LET hits == {i \in 1..Len(att) : att[i].path = p}
    IN  IF hits = {} THEN None
        ELSE Some(att[CHOOSE i \in hits : \A j \in hits : i <= j])

C4_FirstWriteWins ==
    [][Len(attempts') = Len(attempts) + 1
       => \A a \in {attempts'[Len(attempts')]} :
            /\ GetRoute(routes, a.path) # None => (routes' = routes /\ state' = "built")
            /\ \A p \in Paths : GetRoute(routes', p) = FirstAttempt(attempts', p)]_vars

C4_Witness ==
    /\ Len(attempts) = 3
    /\ attempts[1].path = attempts[3].path
    /\ attempts[1].handler # attempts[3].handler
    /\ attempts[2].path # attempts[1].path
    /\ GetRoute(routes, attempts[3].path) = Some(attempts[1])

(***************************************************************************)
(* C5.  After any sequence of Server::route calls the table holds at most  *)
(* one Route per path, and the paths of the table, in table order, are the *)
(* paths of the calls in the order of their first registration.            *)
(***************************************************************************)
RECURSIVE FirstPaths(_)
FirstPathsOn(att, before) ==
    IF \E i \in 1..Len(before) : before[i] = att[Len(att)].path THEN before
    ELSE Append(before, att[Len(att)].path)

FirstPaths(att0) ==
    IF att0 = <<>> THEN <<>>
    ELSE CHOOSE r \in UNION {{FirstPathsOn(att, before) :
                                before \in {FirstPaths(SubSeq(att, 1, Len(att) - 1))}} :
                             att \in {att0}} : TRUE

C5_OneRoutePerPath ==
    /\ \A i, j \in 1..Len(routes) : routes[i].path = routes[j].path => i = j
    /\ [i \in 1..Len(routes) |-> routes[i].path] = FirstPaths(attempts)

C5_Witness ==
    /\ Len(attempts) = 3
    /\ Len(routes) = 2
    /\ attempts[2].path = attempts[1].path
    /\ attempts[3].path # attempts[1].path

(***************************************************************************)
(* C6.  Lookup is exact string equality on the whole resource: a served    *)
(* HTTP/1.1-shaped request runs a handler if and only if a route's path    *)
(* equals its resource, and then that route's; a resource that has a       *)
(* registered path only as a prefix (a query string, a trailing slash)     *)
(* gets the 404.                                                           *)
(***************************************************************************)
C6_ExactMatch ==
    (Served /\ WellFormed(client))
    => /\ invoked # None <=> Registered(routes, client.resource[1])
       /\ invoked # None
          => /\ invoked[1].path = client.resource[1]
             /\ GetRoute(routes, client.resource[1])[1].handler = invoked[1].handler
             /\ StatusLineIs(written, Status200)
       /\ invoked = None => StatusLineIs(written, Status404)

C6_Witness ==
    /\ Served
    /\ client.resource \in {Some(PathAQuery), Some(PathASlash)}
    /\ Registered(routes, PathA)
    /\ invoked = None
    /\ StatusLineIs(written, Status404)

(***************************************************************************)
(* C7.  404 byte-exactness: a request to an unregistered path is answered  *)
(* with the status line HTTP/1.1 404 NOT FOUND, the body "Resource not     *)
(* found" and a Content-Length header whose value is the byte length of    *)
(* that body.                                                              *)
(***************************************************************************)
C7_Case == Served /\ WellFormed(client) /\ ~Registered(routes, client.resource[1])

C7_NotFoundByteExact ==
    C7_Case
    => /\ StatusLineIs(written, Status404)
       /\ BodyOf(written) = NotFoundBody
       /\ HasHeaderLine(written, ContentLengthLine(Len(BodyOf(written))))

\* what the code writes instead: the header announces 21 bytes, the body has 18
C7_LengthAsCoded ==
    C7_Case
    => /\ StatusLineIs(written, Status404)
       /\ BodyOf(written) = NotFoundBody
       /\ Len(BodyOf(written)) = 18
       /\ HasHeaderLine(written, ContentLengthLine(21))

(***************************************************************************)
(* C8.  Content-Length correctness: every success response is the status   *)
(* line HTTP/1.1 200 OK, a header Set-Cookie: session_id=<id>; HttpOnly,   *)
(* a header named Content-Length whose value is the byte length of the     *)
(* body, a blank line and the body, ASCII or multi-byte.                   *)
(***************************************************************************)
C8_Case == Served /\ invoked # None

C8_ContentLength ==
    C8_Case
    => /\ StatusLineIs(written, Status200)
       /\ HasHeaderLine(written, SetCookieLine(invoked[1].session_id))
       /\ HasHeaderLine(written, ContentLengthLine(Len(BodyOf(written))))

\* what the code writes instead: the right value under the name Content-Lenght,
\* and no header named Content-Length at all
C8_LengthAsCoded ==
    C8_Case
    => /\ StatusLineIs(written, Status200)
       /\ HasHeaderLine(written, SetCookieLine(invoked[1].session_id))
       /\ HasHeaderLine(written,
            <<"C", "o", "n", "t", "e", "n", "t", "-", "L", "e", "n", "g", "h", "t", ":", " ">>
            \o FormatUsize(Len(BodyOf(written))))
       /\ ~HasHeaderPrefix(written, ContentLengthPrefix)

(***************************************************************************)
(* C9.  Session type safety: in every session of the store, get(key) as T  *)
(* returns the stored value exactly when the key is present and the value  *)
(* stored under it has type T; a missing key and a type mismatch both      *)
(* return absent.  A handler that asks for "age" as an i32 answers with    *)
(* the stored value exactly in that case, and with "none" otherwise.       *)
(***************************************************************************)
Keys == {"age", "username", "email"}
Types == {"i32", "&str", "bool"}
NoneBody == <<"n", "o", "n", "e">>

C9_TypeSafety ==
    /\ \A id \in DOMAIN sessions, k \in Keys, T \in Types :
        \A d \in {sessions[id]}, got \in {SessionGet(sessions[id], k, T)} :
            /\ k \notin DOMAIN d => got = None
            /\ (k \in DOMAIN d /\ d[k].type # T) => got = None
            /\ (k \in DOMAIN d /\ d[k].type = T) => got = Some(d[k].value)
    /\ (Served /\ invoked # None /\ invoked[1].handler = "whoami")
       => \A d \in {sessions[invoked[1].session_id]} :
            BodyOf(written) =
                IF "age" \in DOMAIN d /\ d["age"].type = "i32" THEN d["age"].value
                ELSE NoneBody

C9_Witness ==
    /\ Served
    /\ invoked # None
    /\ invoked[1].handler = "whoami"
    /\ "age" \in DOMAIN sessions[invoked[1].session_id]
    /\ sessions[invoked[1].session_id]["age"].type = "&str"
    /\ BodyOf(written) = NoneBody

(***************************************************************************)
(* C10.  Session::add overwrites whatever is under the key, of whatever    *)
(* type: after storing u as T1 and then v as T2 under a key, get as T2     *)
(* returns v, get as any other type returns absent, and every other key    *)
(* reads as before.  So it is in the store after a handler has stored.     *)
(***************************************************************************)
Values == {Age, <<"A", "l">>}

C10_AddTwice ==
    \A id \in DOMAIN sessions, k \in Keys, T1 \in Types, T2 \in Types, u \in Values, v \in Values :
        \A d0 \in {sessions[id]} :
            \A d2 \in {SessionAdd(SessionAdd(d0, k, T1, u), k, T2, v)} :
                /\ SessionGet(d2, k, T2) = Some(v)
                /\ \A T \in Types \ {T2} : SessionGet(d2, k, T) = None
                /\ DOMAIN d2 = DOMAIN d0 \cup {k}
                /\ \A k2 \in Keys \ {k}, T \in Types :
                       SessionGet(d2, k2, T) = SessionGet(d0, k2, T)

C10_StoreStep ==
    (Handled /\ invoked' # None /\ invoked'[1].handler = "store")
    => \A sid \in {invoked'[1].session_id} :
         \A old \in {IF sid \in DOMAIN sessions THEN sessions[sid] ELSE SessionNew},
            T2 \in {IF client'.method = GET THEN "i32" ELSE "&str"} :
             /\ SessionGet(sessions'[sid], "age", T2) = Some(Age)
             /\ \A T \in Types \ {T2} : SessionGet(sessions'[sid], "age", T) = None
             /\ client'.method = GET
                => \A k2 \in Keys \ {"age"}, T \in Types :
                       SessionGet(sessions'[sid], k2, T) = SessionGet(old, k2, T)

C10_Overwrite == [](C10_AddTwice) /\ [][C10_StoreStep]_vars

C10_Witness ==
    /\ Served
    /\ invoked # None
    /\ invoked[1].handler = "store"
    /\ client.method = GET
    /\ \A d \in {sessions[invoked[1].session_id]} :
        /\ DOMAIN d = {"age", "username"}
        /\ d["age"] = [type |-> "i32", value |-> Age]
        /\ d["username"].type = "&str"

(***************************************************************************)
(* C11.  Session permanence: an id the store holds is held ever after;     *)
(* its Session keeps every key and changes only in a request resolved to   *)
(* that id, where the handler is given the data exactly as the earlier     *)
(* requests left it and leaves the data the store holds afterwards.        *)
(***************************************************************************)
C11_Step ==
    \A id \in DOMAIN sessions :
        /\ id \in DOMAIN sessions'
        /\ DOMAIN sessions[id] \subseteq DOMAIN sessions'[id]
        /\ \/ sessions'[id] = sessions[id]
           \/ /\ Handled
              /\ invoked' # None
              /\ invoked'[1].session_id = id
              /\ sessions'[id] =
                    HandlerRun(invoked'[1].handler, RequestOf[client'], sessions[id]).session

C11_Permanence == [][C11_Step]_vars

\* the second request reads, under the id of the first, what the first stored
C11_Witness ==
    /\ Served
    /\ accepted = 2
    /\ client.cookie = "alone"
    /\ invoked = Some([path |-> PathB, handler |-> "whoami", session_id |-> 0])
    /\ BodyOf(written) = Age

(***************************************************************************)
(* C12.  from_forms splits the body on "&" and each pair on its first "="  *)
(* into a key and a value, a value with "=" in it kept whole; of several   *)
(* pairs with one key the last gives the value.                            *)
(***************************************************************************)
PairKey(pair) == SubSeq(pair, 1, Find(pair, <<"=">>, 1) - 1)

PairValue(pair) == SubSeq(pair, Find(pair, <<"=">>, 1) + 1, Len(pair))

EqualsIn(pair) == Cardinality({i \in 1..Len(pair) : pair[i] = "="})

\* the mapping the statement describes for a body whose pairs all have a "="
FormsAsStated(pairs) ==
    [k \in {PairKey(pairs[i]) : i \in 1..Len(pairs)} |->
        PairValue(pairs[CHOOSE i \in 1..Len(pairs) :
                          /\ PairKey(pairs[i]) = k
                          /\ \A j \in 1..Len(pairs) : PairKey(pairs[j]) = k => j <= i])]

C12_FirstEquals ==
    form_body # None
    => \A pairs \in {Split(form_body[1], <<"&">>)} :
         (\A i \in 1..Len(pairs) : EqualsIn(pairs[i]) >= 1)
         => form_map = Some(FormsAsStated(pairs))

\* what the code does: the statement for pairs of exactly one "=", a panic
\* for a pair without one, and the value cut at a second "="
C12_FormsAsCoded ==
    form_body # None
    => \A pairs \in {Split(form_body[1], <<"&">>)} :
         /\ (\A i \in 1..Len(pairs) : EqualsIn(pairs[i]) = 1)
            => form_map = Some(FormsAsStated(pairs))
         /\ (\E i \in 1..Len(pairs) : EqualsIn(pairs[i]) = 0) => form_map = None
         /\ form_body[1] = <<"a", "=", "1", "=", "2">>
            => form_map = Some(<<"a">> :> <<"1">>)

(***************************************************************************)
(* C13.  When the handler answers with the redirect response kind for a    *)
(* target path p, the client receives exactly HTTP/1.1 302 Found, a        *)
(* Location: p header and the blank line, and no body.                     *)
(***************************************************************************)
Status302 ==
    <<"H", "T", "T", "P", "/", "1", ".", "1", " ", "3", "0", "2", " ", "F", "o", "u", "n", "d">>

LocationLine(p) == <<"L", "o", "c", "a", "t", "i", "o", "n", ":", " ">> \o p

C13_Case == Served /\ invoked # None /\ invoked[1].handler = "moved"

C13_Redirect ==
    C13_Case => written = Status302 \o CRLF \o LocationLine(MovedTo) \o CRLF \o CRLF

\* what the code writes: the redirect is the body of a 200 response
C13_RedirectAsCoded ==
    C13_Case
    => /\ StatusLineIs(written, Status200)
       /\ SetCookieId(written) = Some(invoked[1].session_id)
       /\ BodyOf(written) = Status302 \o CRLF \o LocationLine(MovedTo) \o CRLF \o CRLF

(***************************************************************************)
(* C14.  A request whose method token is not exactly GET or POST, a        *)
(* lower-case or an empty one included, is fatal: no handler is invoked,   *)
(* nothing is written, and the Session Store and the Route Table are as    *)
(* they were.                                                              *)
(***************************************************************************)
C14_Step ==
    (accepted' = accepted + 1 /\ client'.method \notin {GET, POST})
    => /\ state' = "panicked"
       /\ invoked' = None
       /\ written' = <<>>
       /\ sessions' = sessions
       /\ counter' = counter
       /\ routes' = routes

C14_UnsupportedMethod == [][C14_Step]_vars

C14_Witness ==
    /\ state = "panicked"
    /\ client.method = LowerGet
    /\ Registered(routes, client.resource[1])
    /\ DOMAIN sessions = {0}
    /\ written = <<>>

(***************************************************************************)
(* C15.  A request whose resource matches no registered route gets the     *)
(* 404 response, with no Set-Cookie header, and leaves the ids of the      *)
(* store, its counter and the data of every session as they were, whether  *)
(* it carried no session id, a known one or an unknown one.                *)
(***************************************************************************)
SetCookiePrefix == <<"S", "e", "t", "-", "C", "o", "o", "k", "i", "e">>

C15_Step ==
    (/\ accepted' = accepted + 1
     /\ WellFormed(client')
     /\ ~Registered(routes, client'.resource[1]))
    => /\ state' = "listening"
       /\ invoked' = None
       /\ StatusLineIs(written', Status404)
       /\ BodyOf(written') = NotFoundBody
       /\ ~HasHeaderPrefix(written', SetCookiePrefix)
       /\ sessions' = sessions
       /\ counter' = counter

C15_NotFoundFrame == [][C15_Step]_vars

\* a 404 for a request that carried the id of a session with data in it
C15_Witness ==
    /\ Served
    /\ client.resource = Some(PathC)
    /\ client.cookie = "alone"
    /\ client.id = 0
    /\ routes # <<>>
    /\ DOMAIN sessions = {0}
    /\ DOMAIN sessions[0] # {}
    /\ counter = 1
    /\ StatusLineIs(written, Status404)

(***************************************************************************)
(* C16.  For every request a handler is run for, the id in the Set-Cookie  *)
(* header of the response is the id of the Session handed to the handler:  *)
(* the session under that id, reused or new, is the one the handler was    *)
(* given and the one that holds what it left, and no other one changed.    *)
(***************************************************************************)
C16_Step ==
    (Handled /\ invoked' # None)
    => \A echoed \in {SetCookieId(written')} :
         /\ echoed # None
         /\ echoed[1] = invoked'[1].session_id
         /\ echoed[1] \in DOMAIN sessions'
         /\ sessions'[echoed[1]] =
              HandlerRun(invoked'[1].handler, RequestOf[client'],
                         IF echoed[1] \in DOMAIN sessions THEN sessions[echoed[1]]
                         ELSE SessionNew).session
         /\ \A other \in DOMAIN sessions \ {echoed[1]} : sessions'[other] = sessions[other]

\* and a handler is run for every well-formed request to a registered route
C16_Total ==
    (/\ accepted' = accepted + 1
     /\ WellFormed(client')
     /\ Registered(routes, client'.resource[1]))
    => Handled /\ invoked' # None

C16_ResolvedIdEchoed == [][C16_Step /\ C16_Total]_vars

\* a new session 1 beside session 0, and 1 is the id echoed
C16_Witness ==
    /\ Served
    /\ invoked # None
    /\ invoked[1].handler = "store"
    /\ client.cookie = "none"
    /\ DOMAIN sessions = {0, 1}
    /\ SetCookieId(written) = Some(1)
    /\ "age" \in DOMAIN sessions[1]

(***************************************************************************)
(* C17.  Sessions::get fails for an id the store does not hold, and the    *)
(* dispatcher never makes it fail: whatever session id a request carries   *)
(* (none, a known one, an unknown one, the sentinel of a malformed value), *)
(* the id given to Sessions::get is in the store when get is called, so    *)
(* the only requests that end in a panic are those the parser rejects.     *)
(***************************************************************************)
C17_GetFails ==
    \A id \in (0..(MaxId + 1)) \cup {SENTINEL} :
        /\ id \notin DOMAIN sessions => SessionsGet(sessions, id) = None
        /\ id \in DOMAIN sessions => SessionsGet(sessions, id) = Some(sessions[id])

C17_Step ==
    accepted' = accepted + 1
    => /\ state' = "panicked" => ~RequestOf[client'].ok
       /\ invoked' # None
          => \A id \in {invoked'[1].session_id} :
               \/ id \in DOMAIN sessions /\ counter' = counter
               \/ id = counter /\ counter' = counter + 1 /\ id \in DOMAIN sessions'

C17_GetNeverFails == [](C17_GetFails) /\ [][C17_Step]_vars

\* a request with an id the store did not hold: get was given the new id
C17_Witness ==
    /\ Served
    /\ accepted = 2
    /\ RequestOf[client].session = Some(1)
    /\ invoked # None
    /\ invoked[1].session_id = 1
    /\ DOMAIN sessions = {0, 1}
    /\ counter = 2

(***************************************************************************)
(* C18.  For a start line METHOD SP PATH, with or without a version token  *)
(* after it and whatever header lines follow it, the parsed Request has    *)
(* that method and a resource equal to exactly PATH.                       *)
(***************************************************************************)
MethodName(m) == IF m = GET THEN "GET" ELSE "POST"

C18_Case == accepted > 0 /\ client.method \in {GET, POST} /\ client.resource # None

C18_StartLineTokens ==
    C18_Case
    => \A request \in {RequestOf[client]} :
         /\ request.ok
         /\ request.method = MethodName(client.method)
         /\ request.resource = client.resource[1]

\* what the code does: the tokens are those of the whole header block, so
\* the statement holds when a version token ends the start line or no header
\* line follows it, and otherwise the resource runs on into the next line
C18_TokensAsCoded ==
    C18_Case
    => \A request \in {RequestOf[client]} :
         /\ request.ok
         /\ request.method = MethodName(client.method)
         /\ (client.version \/ (~client.host /\ client.cookie = "none"))
            => request.resource = client.resource[1]
         /\ (~client.version /\ client.host)
            => /\ request.resource = client.resource[1] \o <<"\n", "H", "o", "s", "t", ":">>
               /\ written = Error404

(***************************************************************************)
(* C19.  A start line without the method or without the path token (an     *)
(* empty line, a single token, a leading space) is fatal whatever header   *)
(* lines follow it: no handler is invoked, nothing is written, no session  *)
(* is created.                                                             *)
(***************************************************************************)
C19_Step ==
    (accepted' = accepted + 1 /\ (client'.method = <<>> \/ client'.resource = None))
    => /\ state' = "panicked"
       /\ invoked' = None
       /\ written' = <<>>
       /\ sessions' = sessions
       /\ counter' = counter

C19_MissingToken == [][C19_Step]_vars

\* the single token GET with no header line after it: the method parses and
\* the missing path is what fails
C19_Witness ==
    /\ state = "panicked"
    /\ client.method = GET
    /\ client.resource = None
    /\ ~client.host
    /\ Registered(routes, PathA)
    /\ written = <<>>

(***************************************************************************)
(* C20.  A session_id value that is not an unsigned integer does not make  *)
(* the parser fail: the request parses with the sentinel id, the store     *)
(* does not hold the sentinel, and the request is served with a newly      *)
(* allocated session exactly as the same request with no session id is.    *)
(***************************************************************************)
C20_Step ==
    (accepted' = accepted + 1 /\ client'.cookie = "malformed")
    => \A request \in {RequestOf[client']},
          twin \in {RequestOf[[client' EXCEPT !.cookie = "none"]]} :
         /\ request.ok
         /\ request.session = Some(SENTINEL)
         /\ twin.session = None
         /\ ~SessionsContains(sessions, SENTINEL)
         /\ state' = "listening"
         /\ Registered(routes, client'.resource[1])
            => /\ invoked' # None
               /\ invoked'[1].session_id = counter
               /\ counter' = counter + 1
               /\ DOMAIN sessions' = DOMAIN sessions \cup {counter}
               /\ SetCookieId(written') = Some(counter)
               /\ \A served \in {HandlerRun(invoked'[1].handler, twin, SessionNew)} :
                    /\ sessions'[counter] = served.session
                    /\ written' = FormatContent(Len(served.body), served.body, counter)
               /\ \A id \in DOMAIN sessions : sessions'[id] = sessions[id]
         /\ ~Registered(routes, client'.resource[1]) => written' = Error404

LengthValue(c) == SubSeq(c.length[1], Len(ContentLengthPrefix) + 1, Len(c.length[1]))

LengthAsStated(c) ==
    IF c.length = None \/ ~StartsWith(c.length[1], ContentLengthPrefix) THEN 0
    ELSE IF LengthValue(c) # <<>> /\ \A i \in 1..Len(LengthValue(c)) : IsDigit(LengthValue(c)[i])
         THEN DecimalValue(LengthValue(c))
    ELSE 0

\* the request of c is framed with a length of n
FramedBy(c, r, n) ==
    /\ n = 0 => r.ok /\ r.body = None
    /\ (n > 0 /\ Len(c.body) >= n)
       => r.ok /\ r.body = Some(FromUtf8Lossy(SubSeq(c.body, 1, n)))
    /\ (n > 0 /\ Len(c.body) < n) => ~r.ok

C21_Framing == parsed # None => FramedBy(client, parsed[1], LengthAsStated(client))

\* what the code does: the value is the text up to the next ": ", so that
\* "Content-Length: 2: 3" frames a body of 2 bytes
ColonLine == LengthName \o <<" ", "2", ":", " ", "3">>

C21_FramingAsCoded ==
    parsed # None
    => IF client.length = Some(ColonLine) THEN FramedBy(client, parsed[1], 2)
       ELSE FramedBy(client, parsed[1], LengthAsStated(client))

(***************************************************************************)
(* C22.  Every connection whose request parses ends, and ends in Respond   *)
(* or in NotFound: exactly one response is written to it, a 200 if and     *)
(* only if its resource is that of a registered route and the 404          *)
(* otherwise, and once it has ended nothing more is read from it or        *)
(* written to it.                                                          *)
(***************************************************************************)
Connections == 1..MaxArrivals

\* in every state: one request at most is read from a connection and one
\* response at most written to it, and an ended one has had exactly one of each
C22_OneResponse ==
    \A k \in 1..Len(conns) :
        /\ conns[k].requests <= 1
        /\ conns[k].responses <= 1
        /\ conns[k].status = "closed" => conns[k].requests = 1 /\ conns[k].responses = 1
        /\ conns[k].status \in {"queued", "active", "aborted"} => conns[k].responses = 0

\* in every step: the response is written in the step that ends the
\* connection, from Respond or from NotFound, and an ended connection stays as it is
C22_Step ==
    /\ written' # written /\ written' # <<>>
       => /\ pc \in {"write", "notfound"}
          /\ conns[Current].status = "active"
          /\ conns'[Current].status = "closed"
          /\ StatusLineIs(written', Status200) <=> Registered(routes, client.resource[1])
          /\ ~Registered(routes, client.resource[1])
             => StatusLineIs(written', Status404) /\ BodyOf(written') = NotFoundBody
    /\ \A k \in 1..Len(conns) : conns[k].status = "closed" => conns'[k] = conns[k]

\* every connection whose request has parsed ends
C22_Ends ==
    \A k \in Connections :
        (k <= Len(conns) /\ conns[k].status = "active" /\ conns[k].requests = 1)
        ~> (k <= Len(conns) /\ conns[k].status = "closed")

C23_Once ==
    \A k \in 1..Len(conns) :
        /\ conns[k].calls <= 1
        /\ (conns[k].status = "closed" /\ Registered(routes, conns[k].input.resource[1]))
           => conns[k].calls = 1
        /\ ~Registered(routes, conns[k].input.resource[1]) => conns[k].calls = 0

\* this step invokes a handler
Invokes == \E k \in 1..Len(conns) : conns'[k].calls = conns[k].calls + 1

\* this step writes bytes of a response
Writes == written' # written /\ written' # <<>>

C23_Step ==
    /\ Invokes
       => /\ resolved # None
          /\ resolved[1] \in DOMAIN sessions
          /\ written = <<>>
          /\ ~Writes
          /\ conns'[Current].calls = conns[Current].calls + 1
          /\ response' = Some(HandlerRun(matched[1].handler, RequestOf[client],
                                          sessions[resolved[1]]).body)
    /\ (Writes /\ Registered(routes, client.resource[1]))
       => /\ ~Invokes
          /\ conns[Current].calls = 1
          /\ response # None
          /\ BodyOf(written') = response[1]

C23_DispatchOrder == [](C23_Once) /\ [][C23_Step]_vars

\* the handler has run and its return value is the body of the response
C23_Witness ==
    /\ Len(conns) >= 1
    /\ conns[1].status = "closed"
    /\ conns[1].calls = 1
    /\ accepted = 1
    /\ response = Some(<<"o", "l", "xC3", "xA1">>)
    /\ BodyOf(written) = response[1]

(***************************************************************************)
(* C24.  Connections are serialized: at most one is being resolved at any  *)
(* time, they are resolved in the order of their arrival, the sessions     *)
(* change only in the steps of the one being resolved, and no RefCell ever *)
(* has more than one RefMut alive, so that borrow_mut never fails.         *)
(***************************************************************************)
Finished == {"closed", "aborted"}

C24_OneAtATime ==
    /\ Cardinality({k \in 1..Len(conns) : conns[k].status = "active"}) <= 1
    /\ \A j \in 1..Len(conns), k \in 1..Len(conns) :
         (j < k /\ conns[k].status # "queued") => conns[j].status \in Finished
    /\ borrows.routes <= 1
    /\ borrows.sessions <= 1
    /\ pc \in {"idle", "parse", "borrow"} => borrows = [routes |-> 0, sessions |-> 0]
    /\ pc \in {"match", "session", "invoke", "write", "notfound"}
       => borrows = [routes |-> 1, sessions |-> 1]
    /\ pc \in {"idle", "dead"} <=> \A k \in 1..Len(conns) : conns[k].status # "active"

C24_Step ==
    /\ (sessions' # sessions \/ counter' # counter)
       => /\ pc \in {"session", "invoke"}
          /\ conns[Current].status = "active"
          /\ \A k \in 1..Len(conns) : k # Current => conns'[k] = conns[k]
    /\ routes' = routes
    /\ state' = "panicked" => pc = "parse"
    /\ \A k \in 1..Len(conns) :
         (conns[k].status = "queued" /\ conns'[k].status = "active")
         => /\ pc = "idle"
            /\ \A j \in 1..Len(conns) : j < k <=> conns[j].status \in Finished

C24_Serialized == [](C24_OneAtATime) /\ [][C24_Step]_vars

\* the second connection is being resolved after the first has ended
C24_Witness ==
    /\ Len(conns) = 2
    /\ conns[1].status = "closed"
    /\ conns[2].status = "active"
    /\ pc = "invoke"
    /\ borrows = [routes |-> 1, sessions |-> 1]
    /\ DOMAIN sessions = {0, 1}

(***************************************************************************)
(* C25.  Shape of the store: it holds id i if and only if i is below the   *)
(* counter, so that it holds as many sessions as the counter says; a       *)
(* handled connection raises the counter by one when its route matched     *)
(* and the session id of the request was absent or not in the store, and   *)
(* leaves it as it was otherwise.                                          *)
(***************************************************************************)
C25_Shape ==
    /\ \A i \in 0..(MaxConns + 1) : i \in DOMAIN sessions <=> i < counter
    /\ \A i \in DOMAIN sessions : i \in 0..(MaxConns + 1)
    /\ Cardinality(DOMAIN sessions) = counter

C25_Step ==
    accepted' = accepted + 1
    => \A r \in {RequestOf[client']} :
         IF /\ r.ok
            /\ Registered(routes, r.resource)
            /\ (r.session = None \/ r.session[1] \notin DOMAIN sessions)
         THEN counter' = counter + 1
         ELSE counter' = counter

C25_StoreShape == [](C25_Shape) /\ [][C25_Step]_vars

\* a request with the id of a stored session was handled: the counter stayed
C25_Witness ==
    /\ Served
    /\ accepted = 2
    /\ invoked # None
    /\ RequestOf[client].session = Some(0)
    /\ counter = 1
    /\ DOMAIN sessions = {0}

(***************************************************************************)
(* C26.  Session isolation: handling a request resolved to session k can   *)
(* change the data of session k only; the data of every other session and  *)
(* the Route Table are after the request what they were before it.         *)
(***************************************************************************)
C26_Step ==
    accepted' = accepted + 1
    => /\ routes' = routes
       /\ \A id \in DOMAIN sessions :
            (invoked' = None \/ invoked'[1].session_id # id)
            => (id \in DOMAIN sessions' /\ sessions'[id] = sessions[id])
       /\ \A id \in DOMAIN sessions' \ DOMAIN sessions :
            invoked' # None /\ invoked'[1].session_id = id

C26_Isolation == [][C26_Step]_vars

\* session 1 was written by its request while session 0 kept what it held
C26_Witness ==
    /\ Served
    /\ invoked # None
    /\ invoked[1].session_id = 1
    /\ DOMAIN sessions = {0, 1}
    /\ "age" \in DOMAIN sessions[0]
    /\ sessions[0]["age"].type = "i32"
    /\ "age" \in DOMAIN sessions[1]
    /\ sessions[1]["age"].type = "&str"

(***************************************************************************)
(* C27.  The first line of the header block with the word session_id in    *)
(* it, the start line included, alone decides the session id of the        *)
(* request: a later line with a session id changes nothing, so that a      *)
(* start line whose path or query has the word decides the session, or     *)
(* yields the sentinel, whatever id a Cookie line after it carries.        *)
(***************************************************************************)
\* the first line of the request c with the word in it, None if there is none
FirstIdLine(c) ==
    IF Contains(StartLine(c), SessionIdWord) THEN Some(StartLine(c))
    ELSE IF c.cookie # "none" THEN Some(CookieLine(c.cookie, c.id))
    ELSE None

\* c and d are one request up to the lines after the first with the word
SameUpToIdLine(c, d) ==
    /\ StartLine(c) = StartLine(d)
    /\ FirstIdLine(c) = FirstIdLine(d)

C27_Case == parsed # None /\ client \in SessionLineInputs /\ parsed[1].ok

C27_FirstLineWins ==
    C27_Case
    => /\ parsed[1].session =
            IF FirstIdLine(client) = None THEN None
            ELSE GetSession(FirstIdLine(client)[1])
       /\ \A d \in SessionLineInputs :
            SameUpToIdLine(client, d) => ParsedOf[d].session = parsed[1].session
       /\ (client.resource = Some(PathQueryId) /\ client.version)
          => parsed[1].session = Some(SENTINEL)
       /\ (client.resource = Some(PathQueryId) /\ ~client.version)
          => parsed[1].session = Some(1)
       /\ client.resource = Some(PathNamedId) => parsed[1].session = None
       /\ (client.resource = Some(PathA) /\ client.cookie \in {"alone"})
          => parsed[1].session = Some(client.id)

\* the query says session_id=1, the Cookie line after it session_id=0
C27_Witness ==
    /\ C27_Case
    /\ client.resource = Some(PathQueryId)
    /\ client.version
    /\ client.cookie = "alone"
    /\ client.id = 0
    /\ parsed[1].session = Some(SENTINEL)

(***************************************************************************)
(* C28.  Routing does not look at the method: whether a handler is invoked *)
(* and which one depends on the resource of the request only, so that a    *)
(* GET and a POST to one registered path reach one handler and two         *)
(* requests that differ in the method only have the same route-match       *)
(* outcome.                                                                *)
(***************************************************************************)
\* the request of c with the other method
OtherMethod(c) == [c EXCEPT !.method = IF c.method = GET THEN POST ELSE GET]

\* the handler the Route Table rs has for resource r, None if it has none
HandlerFor(rs, r) ==
    IF Registered(rs, r)
    THEN Some((CHOOSE i \in 1..Len(rs) : rs[i].path = r /\ \A j \in 1..(i - 1) : rs[j].path # r))
    ELSE None

C28_Step ==
    (accepted' = accepted + 1 /\ WellFormed(client'))
    => \A r \in {client'.resource[1]} :
         /\ state' = "listening"
         /\ invoked' # None <=> Registered(routes, r)
         /\ invoked' # None
            => /\ invoked'[1].path = r
               /\ invoked'[1].handler = routes[HandlerFor(routes, r)[1]].handler
         /\ invoked' = None => written' = Error404
         /\ OtherMethod(client') \in RequestInputs
            => /\ RequestOf[OtherMethod(client')].ok
               /\ RequestOf[OtherMethod(client')].resource = RequestOf[client'].resource

C28_MethodIndependent == [][C28_Step]_vars

\* a GET and then a POST to /a have reached the one handler of /a
C28_Witness ==
    /\ Served
    /\ accepted = 2
    /\ client.method = POST
    /\ client.resource = Some(PathA)
    /\ invoked # None
    /\ invoked[1].handler = "store"
    /\ DOMAIN sessions = {0}
    /\ DOMAIN sessions[0] = {"age", "username"}
    /\ sessions[0]["age"].type = "&str"

====
